---- MODULE Spec2Model ----
(***************************************************************************)
(* A model of bagit (src/bagit/__init__.py): the command-line loop that    *)
(* calls make_bag for every directory argument, make_bag itself, and       *)
(* _make_manifest with its multiprocessing pool of _manifest_line workers. *)
(*                                                                         *)
(* The file system is a set of directories and a function from file paths  *)
(* to contents; a path is a sequence of names below the root <<>>.         *)
(***************************************************************************)
EXTENDS Integers, Sequences, FiniteSets, TLC

\* The longest list of directory arguments on the command line.
MaxArgs == 2

\* fh.read(16384) in _manifest_line.
ChunkSize == 16384

VARIABLES
    dirs,         \* file system: the directories (absolute paths)
    files,        \* file system: file path |-> contents
    cwd,          \* the process working directory
    args,         \* the directory arguments of the command line
    argi,         \* how many of them the for loop of __main__ has taken
    bag_info,     \* opt_parser.bag_info, the dict handed to every make_bag call
    processes,    \* opts.processes
    today,        \* date.today()
    pc,           \* where the program is
    old_dir,      \* make_bag's old_dir
    todo,         \* entries of os.listdir('.') the for loop has not visited yet
    tasks,        \* list(_walk('data')) as handed to pool.map
    status,       \* per task: "pending", "running", "done", "failed"
    results,      \* per task: the tuple _manifest_line returned
    num_files,    \* _make_manifest's num_files
    total_bytes,  \* _make_manifest's total_bytes
    Oxum,         \* make_bag's Oxum
    exc,          \* the exception raised in the current make_bag call, or "none"
    logged,       \* whether the current call has logged an error
    result        \* how the latest make_bag call ended

vars == <<dirs, files, cwd, args, argi, bag_info, processes, today, pc, old_dir,
          todo, tasks, status, results, num_files, total_bytes, Oxum, exc,
          logged, result>>

fs == <<dirs, files>>
pool == <<tasks, status, results>>
totals == <<num_files, total_bytes>>

-----------------------------------------------------------------------------
(* Paths and the os / os.path calls the program makes.                      *)

Min(a, b) == IF a < b THEN a ELSE b

IsPrefix(p, q) == Len(p) <= Len(q) /\ SubSeq(q, 1, Len(p)) = p

\* os.path.join / os.path.abspath: a relative argument is taken from the
\* working directory, an absolute one as it is.
abspath(wd, a) == IF a.abs THEN a.path ELSE wd \o a.path

exists(p) == p \in dirs \/ p \in DOMAIN files

\* A faulty isdir, os.path.exists in its place: a regular file passes.
isdirExists(p) == exists(p)

isdir(p) == p \in dirs

\* os.listdir(d): the names of the entries directly in d.
listdir(d) ==
    { p[Len(d) + 1] : p \in { q \in dirs \cup DOMAIN files :
                                 IsPrefix(d, q) /\ Len(q) = Len(d) + 1 } }

\* Where os.rename(src, dst) puts path p.
Moved(p, src, dst) ==
    IF IsPrefix(src, p) THEN dst \o SubSeq(p, Len(src) + 1, Len(p)) ELSE p

renameDirs(src, dst) == { Moved(p, src, dst) : p \in dirs }

renameFiles(src, dst) ==
    [ q \in { Moved(p, src, dst) : p \in DOMAIN files } |->
        files[CHOOSE p \in DOMAIN files : Moved(p, src, dst) = q] ]

\* open(p, "w").write(text); close(): p is created or truncated.
writeFile(p, text) == [ q \in DOMAIN files \cup {p} |-> IF q = p THEN text ELSE files[q] ]

removeFile(p) == [ q \in DOMAIN files \ {p} |-> files[q] ]

\* All orders of a finite set, as sequences without repetition.
Orders(S) ==
    { s \in [1..Cardinality(S) -> S] : \A i, j \in DOMAIN s : i # j => s[i] # s[j] }

\* _walk(data_dir): the paths, relative to the working directory, of the
\* files below data_dir.
walkSet(wd, data_dir) ==
    { SubSeq(p, Len(wd) + 1, Len(p)) :
        p \in { q \in DOMAIN files : IsPrefix(wd \o data_dir, q) /\ Len(q) > Len(wd \o data_dir) } }

dirname(p) == SubSeq(p, 1, Len(p) - 1)

\* The orders os.walk can yield the files in: top down, the files of a
\* directory before those of the directories below it; the order within a
\* directory is the file system's.
walkOrders(wd, data_dir) ==
    { s \in Orders(walkSet(wd, data_dir)) :
        \A i, j \in DOMAIN s :
            i < j => ~(dirname(s[j]) # dirname(s[i]) /\ IsPrefix(dirname(s[j]), dirname(s[i]))) }

-----------------------------------------------------------------------------
(* _manifest_line: the digest and the size of one file, read in chunks.     *)

\* hashlib.md5 is kept abstract: the digest names the bytes that were fed.
hexdigest(m) == <<"md5", m>>

RECURSIVE readLoop(_, _, _, _)
readLoop(bytes, pos, m, total) ==
    LET chunk == SubSeq(bytes, pos + 1, Min(pos + ChunkSize, Len(bytes)))
    IN  IF chunk = <<>>
        THEN <<hexdigest(m), total + Len(chunk)>>
        ELSE readLoop(bytes, pos + Len(chunk), m \o chunk, total + Len(chunk))

_manifest_line(wd, filename) ==
    LET r == readLoop(files[wd \o filename], 0, <<>>, 0)
    IN  <<r[1], filename, r[2]>>

\* "%s  %s\n" % (digest, filename)
manifestText(digest, filename) == <<digest, "  ", filename, "\n">>

\* "%s.%s" % (total_bytes, num_files)
oxumText(bytes, n) == ToString(bytes) \o "." \o ToString(n)

-----------------------------------------------------------------------------
(* bag-info.txt                                                             *)

\* The keys the model uses, in the order Python's sort puts them
\* (byte-wise string comparison).
KeyOrder == <<"Bag-Count", "Bagging-Date", "Contact-Name", "Payload-Oxum",
              "Source-Organization">>

KeyRank(k) == CHOOSE i \in DOMAIN KeyOrder : KeyOrder[i] = k

\* headers = bag_info.keys(); headers.sort()
RECURSIVE sortedKeys(_)
sortedKeys(S) ==
    IF S = {} THEN <<>>
    ELSE LET k == CHOOSE x \in S : \A y \in S : KeyRank(x) <= KeyRank(y)
         IN  <<k>> \o sortedKeys(S \ {k})

pad2(n) == IF n < 10 THEN "0" \o ToString(n) ELSE ToString(n)

\* date.strftime(d, "%Y-%m-%d")
strftime(d) == ToString(d[1]) \o "-" \o pad2(d[2]) \o "-" \o pad2(d[3])

\* bag_info[key] = value
setItem(d, key, value) ==
    [ k \in DOMAIN d \cup {key} |-> IF k = key THEN value ELSE d[k] ]

\* "%s: %s\n" % (h, bag_info[h])
infoText(h, v) == <<h, ": ", v, "\n">>

bagInfoText(d) ==
    LET headers == sortedKeys(DOMAIN d)
    IN  [ i \in DOMAIN headers |-> infoText(headers[i], d[headers[i]]) ]

bagitText == <<"BagIt-Version: 0.96\n", "Tag-File-Character-Encoding: UTF-8\n">>

-----------------------------------------------------------------------------
(* The directories the program is started on.                               *)

NoFiles == [ p \in {} |-> <<>> ]

TreeEmpty == [ files |-> NoFiles, dirs |-> {} ]

TreeOne == [ files |-> (<<"a.txt">> :> <<104, 105>>), dirs |-> {} ]

\* A directory that already has an entry named data.
TreeData ==
    [ files |-> (<<"a.txt">> :> <<104, 105>>) @@ (<<"data", "x">> :> <<120>>),
      dirs  |-> {<<"data">>} ]

\* A directory that still holds the manifest of an earlier bagging.
TreeStale ==
    [ files |-> (<<"a.txt">> :> <<104, 105>>) @@ (<<"manifest-md5.txt">> :> <<48, 32, 10>>),
      dirs  |-> {} ]

\* Three files: a.txt holds "hi", e.txt is empty, sub/b.txt holds "yo".
TreeThree ==
    [ files |-> (<<"a.txt">> :> <<104, 105>>) @@ (<<"e.txt">> :> <<>>)
                @@ (<<"sub", "b.txt">> :> <<121, 111>>),
      dirs  |-> {<<"sub">>} ]

Trees == {TreeEmpty, TreeData, TreeStale, TreeThree}

mountDirs(name, t) == {<<name>>} \cup { <<name>> \o p : p \in t.dirs }

mountFiles(name, t) ==
    [ q \in { <<name>> \o p : p \in DOMAIN t.files } |-> t.files[Tail(q)] ]

Rel(name) == [ abs |-> FALSE, path |-> <<name>> ]

Abs(name) == [ abs |-> TRUE, path |-> <<name>> ]

\* d1 and d2 are directories, plain is a regular file, missing does not exist.
ArgChoices == {Rel("d1"), Rel("d2"), Rel("missing"), Rel("plain"), Abs("d1")}

ArgLists == UNION { [1..n -> ArgChoices] : n \in 1..MaxArgs }

NoInfo == [ k \in {} |-> "" ]

BagInfos ==
    { NoInfo,
      ("Source-Organization" :> "Library of Congress") @@ ("Contact-Name" :> "Ed Summers")
          @@ ("Payload-Oxum" :> "9.9") @@ ("Bagging-Date" :> "1999-12-31")
          @@ ("Bag-Count" :> "1 of 1") }

PoolSizes == {1, 2, 8}

Dates == {<<2010, 6, 1>>}

TagFiles == {"manifest-md5.txt", "bagit.txt", "bag-info.txt"}

Init ==
    /\ \E t1 \in Trees :
          /\ dirs = {<<>>} \cup mountDirs("d1", t1) \cup mountDirs("d2", TreeOne)
          /\ files = mountFiles("d1", t1) @@ mountFiles("d2", TreeOne)
                        @@ (<<"plain">> :> <<112>>)
    /\ cwd \in {<<>>, <<"d1", "sub">>} \cap dirs
    /\ args \in ArgLists
    /\ argi = 0
    /\ bag_info \in BagInfos
    /\ processes \in PoolSizes
    /\ today \in Dates
    /\ pc = "main"
    /\ old_dir = <<>>
    /\ todo = {}
    /\ tasks = <<>>
    /\ status = <<>>
    /\ results = <<>>
    /\ num_files = 0
    /\ total_bytes = 0
    /\ Oxum = ""
    /\ exc = "none"
    /\ logged = FALSE
    /\ result = "none"

-----------------------------------------------------------------------------
(* __main__: for bag_dir in args: make_bag(bag_dir, ...)                    *)

\* make_bag is called on something that is not a directory: the error is
\* logged and RuntimeError leaves make_bag and, uncaught, the for loop.
CallNoSuchDir ==
    /\ pc = "main"
    /\ argi < Len(args)
    /\ ~isdir(abspath(cwd, args[argi + 1]))
    /\ argi' = argi + 1
    /\ logged' = TRUE
    /\ exc' = "RuntimeError: no such bag directory"
    /\ result' = "raised"
    /\ pc' = "crashed"
    /\ UNCHANGED <<fs, cwd, args, bag_info, processes, today, old_dir, todo, pool,
                   totals, Oxum>>

\* make_bag is called on a directory: old_dir is taken, os.chdir(bag_dir).
CallMakeBag ==
    /\ pc = "main"
    /\ argi < Len(args)
    /\ isdir(abspath(cwd, args[argi + 1]))
    /\ argi' = argi + 1
    /\ old_dir' = cwd
    /\ cwd' = abspath(cwd, args[argi + 1])
    /\ logged' = FALSE
    /\ exc' = "none"
    /\ result' = "running"
    /\ pc' = "mkdir"
    /\ UNCHANGED <<fs, args, bag_info, processes, today, todo, pool, totals, Oxum>>

\* The for loop has run out of arguments.
MainExit ==
    /\ pc = "main"
    /\ argi = Len(args)
    /\ pc' = "exit"
    /\ UNCHANGED <<fs, cwd, args, argi, bag_info, processes, today, old_dir, todo,
                   pool, totals, Oxum, exc, logged, result>>

-----------------------------------------------------------------------------
(* make_bag: the try block up to the manifest.                              *)

\* Enter the except clause with exception e.
raise(e) ==
    /\ exc' = e
    /\ pc' = "except"

\* os.mkdir('data')
Mkdir ==
    /\ pc = "mkdir"
    /\ ~exists(cwd \o <<"data">>)
    /\ dirs' = dirs \cup {cwd \o <<"data">>}
    /\ pc' = "listdir"
    /\ UNCHANGED <<files, cwd, args, argi, bag_info, processes, today, old_dir, todo,
                   pool, totals, Oxum, exc, logged, result>>

\* os.mkdir('data') when the directory already has an entry named data.
MkdirExists ==
    /\ pc = "mkdir"
    /\ exists(cwd \o <<"data">>)
    /\ raise("OSError: mkdir: File exists")
    /\ UNCHANGED <<fs, cwd, args, argi, bag_info, processes, today, old_dir, todo,
                   pool, totals, Oxum, logged, result>>

\* A faulty order of steps: the manifest is opened for writing before the
\* directory is listed and reorganised.
ListdirManifestOpen ==
    /\ pc = "listdir"
    /\ files' = writeFile(cwd \o <<"manifest-md5.txt">>, <<>>)
    /\ todo' = listdir(cwd) \cup {"manifest-md5.txt"}
    /\ pc' = "move"
    /\ UNCHANGED <<dirs, cwd, args, argi, bag_info, processes, today, old_dir, pool,
                   totals, Oxum, exc, logged, result>>

\* os.listdir('.')
Listdir ==
    /\ pc = "listdir"
    /\ todo' = listdir(cwd)
    /\ pc' = "move"
    /\ UNCHANGED <<fs, cwd, args, argi, bag_info, processes, today, old_dir, pool,
                   totals, Oxum, exc, logged, result>>

\* if f == 'data': continue
MoveSkipData ==
    /\ pc = "move"
    /\ "data" \in todo
    /\ todo' = todo \ {"data"}
    /\ UNCHANGED <<fs, cwd, args, argi, bag_info, processes, today, pc, old_dir, pool,
                   totals, Oxum, exc, logged, result>>

\* os.rename(f, os.path.join('data', f)) for the next entry of the listing.
MoveEntry ==
    /\ pc = "move"
    /\ \E f \in todo \ {"data"} :
          /\ dirs' = renameDirs(cwd \o <<f>>, cwd \o <<"data", f>>)
          /\ files' = renameFiles(cwd \o <<f>>, cwd \o <<"data", f>>)
          /\ todo' = todo \ {f}
    /\ UNCHANGED <<cwd, args, argi, bag_info, processes, today, pc, old_dir, pool,
                   totals, Oxum, exc, logged, result>>

\* The for loop over the listing is over.
MoveDone ==
    /\ pc = "move"
    /\ todo = {}
    /\ pc' = "manifest"
    /\ UNCHANGED <<fs, cwd, args, argi, bag_info, processes, today, old_dir, todo,
                   pool, totals, Oxum, exc, logged, result>>

-----------------------------------------------------------------------------
(* _make_manifest: the pool, the manifest file and the totals.              *)

manifestPath == cwd \o <<"manifest-md5.txt">>

\* _make_manifest is left, by return or by an exception: its locals are gone.
leaveManifest ==
    /\ tasks' = <<>>
    /\ status' = <<>>
    /\ results' = <<>>
    /\ num_files' = 0
    /\ total_bytes' = 0

\* pool = multiprocessing.Pool(processes); manifest = open(manifest_file, 'w')
OpenManifest ==
    /\ pc = "manifest"
    /\ files' = writeFile(manifestPath, <<>>)
    /\ num_files' = 0
    /\ total_bytes' = 0
    /\ pc' = "walk"
    /\ UNCHANGED <<dirs, cwd, args, argi, bag_info, processes, today, old_dir, todo,
                   pool, Oxum, exc, logged, result>>

\* A faulty dispatch: the items go out in chunks of one per worker, and
\* the incomplete last chunk is dropped.
dispatchedChunks(items, n) == SubSeq(items, 1, (Len(items) \div n) * n)

\* pool.map hands every item of the iterable to the pool, whatever its size.
dispatched(items, n) == items

\* pool.map(_manifest_line, _walk(data_dir)): the generator is run to its end
\* and its items become the pool's tasks, in the order os.walk gave them.
Walk ==
    /\ pc = "walk"
    /\ \E order \in walkOrders(cwd, <<"data">>) :
          tasks' = dispatched(order, processes)
    /\ status' = [ i \in DOMAIN tasks' |-> "pending" ]
    /\ results' = [ i \in DOMAIN tasks' |-> <<>> ]
    /\ pc' = "pool"
    /\ UNCHANGED <<fs, cwd, args, argi, bag_info, processes, today, old_dir, todo,
                   totals, Oxum, exc, logged, result>>

running == { i \in DOMAIN status : status[i] = "running" }

pending == { i \in DOMAIN status : status[i] = "pending" }

\* The pool's task queue is first in, first out.
nextTask == CHOOSE i \in pending : \A j \in pending : i <= j

\* A payload file goes away after _walk has listed it and before a worker
\* opens it.
FileDisappears ==
    /\ pc = "pool"
    /\ \E i \in pending :
          /\ cwd \o tasks[i] \in DOMAIN files
          /\ files' = removeFile(cwd \o tasks[i])
    /\ UNCHANGED <<dirs, cwd, args, argi, bag_info, processes, today, pc, old_dir,
                   todo, pool, totals, Oxum, exc, logged, result>>

\* An idle worker takes the next task: fh = open(filename).
StartTask ==
    /\ pc = "pool"
    /\ pending # {}
    /\ Cardinality(running) < processes
    /\ cwd \o tasks[nextTask] \in DOMAIN files
    /\ status' = [status EXCEPT ![nextTask] = "running"]
    /\ UNCHANGED <<fs, cwd, args, argi, bag_info, processes, today, pc, old_dir, todo,
                   tasks, results, totals, Oxum, exc, logged, result>>

\* open(filename) raises IOError in the worker.
StartTaskFails ==
    /\ pc = "pool"
    /\ pending # {}
    /\ Cardinality(running) < processes
    /\ cwd \o tasks[nextTask] \notin DOMAIN files
    /\ status' = [status EXCEPT ![nextTask] = "failed"]
    /\ UNCHANGED <<fs, cwd, args, argi, bag_info, processes, today, pc, old_dir, todo,
                   tasks, results, totals, Oxum, exc, logged, result>>

\* A worker has read its file to the end and returns its tuple.
FinishTask ==
    /\ pc = "pool"
    /\ \E i \in running :
          /\ results' = [results EXCEPT ![i] = _manifest_line(cwd, tasks[i])]
          /\ status' = [status EXCEPT ![i] = "done"]
    /\ UNCHANGED <<fs, cwd, args, argi, bag_info, processes, today, pc, old_dir, todo,
                   tasks, totals, Oxum, exc, logged, result>>

\* pool.map returns the tuples in the order of the tasks.
PoolMapReturns ==
    /\ pc = "pool"
    /\ \A i \in DOMAIN status : status[i] = "done"
    /\ pc' = "write"
    /\ UNCHANGED <<fs, cwd, args, argi, bag_info, processes, today, old_dir, todo,
                   pool, totals, Oxum, exc, logged, result>>

\* pool.map raises the exception of a worker in the parent.
PoolMapRaises ==
    /\ pc = "pool"
    /\ \E i \in DOMAIN status : status[i] = "failed"
    /\ raise("IOError: No such file or directory")
    /\ leaveManifest
    /\ UNCHANGED <<fs, cwd, args, argi, bag_info, processes, today, old_dir, todo,
                   Oxum, logged, result>>

\* One turn of the for loop over the tuples.
WriteLine ==
    /\ pc = "write"
    /\ num_files < Len(tasks)
    /\ LET r == results[num_files + 1]
       IN  /\ num_files' = num_files + 1
           /\ total_bytes' = total_bytes + r[3]
           /\ files' = writeFile(manifestPath,
                                 Append(files[manifestPath], manifestText(r[1], r[2])))
    /\ UNCHANGED <<dirs, cwd, args, argi, bag_info, processes, today, pc, old_dir,
                   todo, pool, Oxum, exc, logged, result>>

\* manifest.close(); return "%s.%s" % (total_bytes, num_files)
CloseManifest ==
    /\ pc = "write"
    /\ num_files = Len(tasks)
    /\ Oxum' = oxumText(total_bytes, num_files)
    /\ pc' = "bagit"
    /\ leaveManifest
    /\ UNCHANGED <<fs, cwd, args, argi, bag_info, processes, today, old_dir, todo,
                   exc, logged, result>>

-----------------------------------------------------------------------------
(* make_bag: the tag files, the except clause and the finally clause.       *)

\* open("bagit.txt", "w").write(txt)
WriteBagit ==
    /\ pc = "bagit"
    /\ files' = writeFile(cwd \o <<"bagit.txt">>, bagitText)
    /\ pc' = "baginfo"
    /\ UNCHANGED <<dirs, cwd, args, argi, bag_info, processes, today, old_dir, todo,
                   pool, totals, Oxum, exc, logged, result>>

\* A faulty update, dict.setdefault in place of the assignments: a value the
\* caller supplied under one of the two keys is kept.
updateInfoKeep(d, date, oxum) ==
    LET d1 == IF "Bagging-Date" \in DOMAIN d THEN d
              ELSE setItem(d, "Bagging-Date", strftime(date))
    IN  IF "Payload-Oxum" \in DOMAIN d1 THEN d1 ELSE setItem(d1, "Payload-Oxum", oxum)

\* bag_info['Bagging-Date'] = ...; bag_info['Payload-Oxum'] = Oxum
updateInfo(d, date, oxum) ==
    setItem(setItem(d, "Bagging-Date", strftime(date)), "Payload-Oxum", oxum)

\* bag-info.txt is opened, the dict is updated and written out sorted.
WriteBagInfo ==
    /\ pc = "baginfo"
    /\ bag_info' = updateInfo(bag_info, today, Oxum)
    /\ files' = writeFile(cwd \o <<"bag-info.txt">>, bagInfoText(bag_info'))
    /\ pc' = "finally"
    /\ UNCHANGED <<dirs, cwd, args, argi, processes, today, old_dir, todo, pool,
                   totals, Oxum, exc, logged, result>>

\* The steps of the try block in which the operating system can refuse an
\* operation whatever the directory holds (permissions, a full disk).
canFail ==
    \/ pc \in {"mkdir", "listdir", "manifest", "bagit", "baginfo"}
    \/ pc = "move" /\ todo \ {"data"} # {}
    \/ pc = "write" /\ num_files < Len(tasks)

\* The operation at hand raises OSError or IOError.
OSFailure ==
    /\ canFail
    /\ raise("EnvironmentError: " \o pc)
    /\ leaveManifest
    /\ UNCHANGED <<fs, cwd, args, argi, bag_info, processes, today, old_dir, todo,
                   Oxum, logged, result>>

\* except Exception, e: logging.error(e)
Except ==
    /\ pc = "except"
    /\ logged' = TRUE
    /\ pc' = "finally"
    /\ UNCHANGED <<fs, cwd, args, argi, bag_info, processes, today, old_dir, todo,
                   pool, totals, Oxum, exc, result>>

\* finally: os.chdir(old_dir); make_bag then returns None, also after the
\* except clause.
FinallyRestore ==
    /\ pc = "finally"
    /\ isdir(old_dir)
    /\ cwd' = old_dir
    /\ result' = "returned"
    /\ pc' = "main"
    /\ Oxum' = ""
    /\ UNCHANGED <<fs, args, argi, bag_info, processes, today, old_dir, todo, pool,
                   totals, exc, logged>>

\* finally: os.chdir(old_dir) when old_dir no longer names a directory:
\* OSError leaves make_bag and, uncaught, the for loop.
FinallyChdirFails ==
    /\ pc = "finally"
    /\ ~isdir(old_dir)
    /\ exc' = "OSError: chdir: No such file or directory"
    /\ result' = "raised"
    /\ pc' = "crashed"
    /\ Oxum' = ""
    /\ UNCHANGED <<fs, cwd, args, argi, bag_info, processes, today, old_dir, todo,
                   pool, totals, logged>>

-----------------------------------------------------------------------------

Next ==
    \/ CallNoSuchDir
    \/ CallMakeBag
    \/ MainExit
    \/ Mkdir
    \/ MkdirExists
    \/ Listdir
    \/ MoveSkipData
    \/ MoveEntry
    \/ MoveDone
    \/ OpenManifest
    \/ Walk
    \/ FileDisappears
    \/ StartTask
    \/ StartTaskFails
    \/ FinishTask
    \/ PoolMapReturns
    \/ PoolMapRaises
    \/ WriteLine
    \/ CloseManifest
    \/ WriteBagit
    \/ WriteBagInfo
    \/ OSFailure
    \/ Except
    \/ FinallyRestore
    \/ FinallyChdirFails

Spec == Init /\ [][Next]_vars

-----------------------------------------------------------------------------
(* Properties.                                                              *)

NoSuchDir == "RuntimeError: no such bag directory"

\* The directory of the make_bag call that has just ended.
bagDir == abspath(cwd, args[argi])

\* The files of the bag's tree other than the tag files at its top.
payload(b) ==
    { p \in DOMAIN files :
        IsPrefix(b, p) /\ ~(Len(p) = Len(b) + 1 /\ p[Len(p)] \in TagFiles) }

RECURSIVE sizeOf(_)
sizeOf(S) ==
    IF S = {} THEN 0
    ELSE LET p == CHOOSE x \in S : TRUE IN Len(files[p]) + sizeOf(S \ {p})

\* The exceptions that come from outside the program: the operating system
\* refusing an operation, or a file that went away.
EnvErrors ==
    { "EnvironmentError: " \o step :
        step \in {"mkdir", "listdir", "move", "manifest", "write", "bagit", "baginfo"} }
    \cup {"IOError: No such file or directory"}

\* C1: a make_bag call in which a step of the creation pipeline failed never
\* returns normally: after a normal return no exception was raised in the call.
C1_FailureSurfaced ==
    (pc = "main" /\ result = "returned") => exc = "none"

\* C2: when make_bag returns on a directory holding N files of S bytes,
\* manifest-md5.txt has exactly N lines, one per payload file, and
\* bag-info.txt gives Payload-Oxum as "S.N". (Stated for the calls in which
\* nothing outside the program went wrong.)
C2_ManifestComplete ==
    (pc = "main" /\ result = "returned" /\ exc \notin EnvErrors) =>
        LET m == bagDir \o <<"manifest-md5.txt">>
            info == bagDir \o <<"bag-info.txt">>
        IN  /\ m \in DOMAIN files
            /\ Len(files[m]) = Cardinality(payload(bagDir))
            /\ { bagDir \o files[m][i][3] : i \in DOMAIN files[m] } = payload(bagDir)
            /\ info \in DOMAIN files
            /\ \E i \in DOMAIN files[info] :
                  /\ files[info][i][1] = "Payload-Oxum"
                  /\ files[info][i][3] =
                         oxumText(sizeOf(payload(bagDir)), Cardinality(payload(bagDir)))

\* C3: a make_bag call in which a worker could not open a file that _walk
\* had listed ends with an error to the caller.
C3_VanishedFileAborts ==
    (pc \in {"main", "exit", "crashed"} /\ exc = "IOError: No such file or directory")
        => result = "raised"

\* C4: make_bag on a path that is not a directory raises RuntimeError "no
\* such bag directory" and changes neither the file system nor the working
\* directory.
C4_NoSuchDirNoMutation ==
    [][ ( /\ pc = "main"
          /\ argi < Len(args)
          /\ abspath(cwd, args[argi + 1]) \notin dirs
          /\ argi' = argi + 1 )
        => ( /\ dirs' = dirs
             /\ files' = files
             /\ cwd' = cwd
             /\ result' = "raised"
             /\ exc' = NoSuchDir
             /\ pc' = "crashed" ) ]_vars

\* make_bag has raised on a regular file given as the directory.
C4_Witness ==
    /\ pc = "crashed"
    /\ exc = NoSuchDir
    /\ bagDir \in DOMAIN files

\* C5: the bag-info.txt a make_bag call has written holds one "Key: value"
\* line per key of the mapping, in strictly ascending key order, with
\* Bagging-Date and Payload-Oxum set to today's date and this call's Oxum.
C5_BagInfoSorted ==
    (pc = "finally" /\ exc = "none") =>
        LET text == files[cwd \o <<"bag-info.txt">>]
        IN  /\ Len(text) = Cardinality(DOMAIN bag_info)
            /\ \A k \in DOMAIN bag_info :
                  \E i \in DOMAIN text : text[i] = <<k, ": ", bag_info[k], "\n">>
            /\ \A i, j \in DOMAIN text :
                  i < j => KeyRank(text[i][1]) < KeyRank(text[j][1])
            /\ \E i \in DOMAIN text :
                  text[i][1] = "Bagging-Date" /\ text[i][3] = strftime(today)
            /\ \E i \in DOMAIN text :
                  text[i][1] = "Payload-Oxum" /\ text[i][3] = Oxum
            /\ Oxum # ""

\* bag-info.txt has been written for a caller who had supplied a date and
\* an Oxum of its own.
C5_Witness ==
    /\ pc = "finally"
    /\ exc = "none"
    /\ "Bag-Count" \in DOMAIN bag_info
    /\ Oxum = "4.3"

\* What the files below data give when they are hashed one after the other.
sequentialEntries ==
    { <<hexdigest(files[cwd \o p]), p, Len(files[cwd \o p])>> :
        p \in walkSet(cwd, <<"data">>) }

\* C6: whatever the pool size and the order in which the workers start and
\* finish, pool.map yields the tuples sequential hashing yields, and the
\* manifest lines and the Oxum are those of the payload.
C6_PoolSizeIrrelevant ==
    /\ pc = "write" =>
          /\ { results[i] : i \in DOMAIN results } = sequentialEntries
          /\ Len(results) = Cardinality(sequentialEntries)
    /\ pc = "bagit" =>
          /\ { <<l[1], l[3]>> : l \in { files[manifestPath][i] : i \in DOMAIN files[manifestPath] } }
                = { <<e[1], e[2]>> : e \in sequentialEntries }
          /\ Len(files[manifestPath]) = Cardinality(sequentialEntries)
          /\ Oxum = oxumText(sizeOf({ cwd \o p : p \in walkSet(cwd, <<"data">>) }),
                             Cardinality(walkSet(cwd, <<"data">>)))

\* A pool of two workers has hashed three files.
C6_Witness ==
    /\ pc = "write"
    /\ processes = 2
    /\ Len(results) = 3

\* C7: when a make_bag call that had changed into the bag directory ends,
\* the working directory is the one the call started in. (Stated for the
\* calls that completed all steps, bag-info.txt included.)
C7_CwdRestored ==
    ( /\ result \in {"returned", "raised"}
      /\ exc # NoSuchDir
      /\ abspath(old_dir, args[argi]) \o <<"bag-info.txt">> \in DOMAIN files )
        => cwd = old_dir

\* C8: when the command line ends, make_bag has been called for every
\* directory argument.
C8_EveryDirAttempted ==
    pc \in {"exit", "crashed"} => argi = Len(args)

\* C9: after make_bag the only top-level entries of the directory are data
\* and the tag files: every other entry has been moved into data/. (Stated
\* for the calls in which nothing outside the program went wrong.)
C9_AllEntriesMoved ==
    (pc = "main" /\ result = "returned" /\ exc \notin EnvErrors)
        => listdir(bagDir) \subseteq {"data"} \cup TagFiles

\* C10, as stated: no entry named as a tag file is at the top of the
\* directory while the move loop runs.
C10_NoTagFileDuringMove ==
    pc = "move" => listdir(cwd) \cap TagFiles = {}

reorganising == {"mkdir", "listdir", "move"}

hashing == {"walk", "pool", "write"}

\* A step that neither creates nor rewrites a tag file at the top.
tagFilesUntouched ==
    \A t \in TagFiles :
        cwd \o <<t>> \in DOMAIN files' =>
            (cwd \o <<t>> \in DOMAIN files /\ files'[cwd \o <<t>>] = files[cwd \o <<t>>])

moveLoopOver ==
    pc \in hashing => (todo = {} /\ listdir(cwd) \subseteq {"data", "manifest-md5.txt"})

hashedAreRelocated ==
    pc = "pool" =>
        /\ \A i \in DOMAIN tasks : tasks[i][1] = "data"
        /\ \A p \in DOMAIN files :
              (IsPrefix(cwd, p) /\ p # manifestPath) =>
                  \E i \in DOMAIN tasks : cwd \o tasks[i] = p

\* C10, amended: no step of the reorganisation creates or rewrites a tag
\* file; once the manifest is open the move loop is over and nothing but
\* data and the new manifest is at the top; the files handed to the pool are
\* all the files of the directory but the new manifest, each below data/.
C10_TagFilesAfterMove ==
    /\ [][(pc \in reorganising) => tagFilesUntouched]_vars
    /\ [](moveLoopOver /\ hashedAreRelocated)

\* The manifest has been opened after a manifest of an earlier bagging was
\* moved into data/ with the rest.
C10_Witness ==
    /\ pc = "pool"
    /\ files[manifestPath] = <<>>
    /\ cwd \o <<"data", "manifest-md5.txt">> \in DOMAIN files
    /\ Len(tasks) = 2

====
